---------------------------- MODULE Spec2Model ----------------------------
(***************************************************************************)
(* gencomp: c_cpp_properties.json -> compile_commands.json (src/main.rs).  *)
(*                                                                         *)
(* Two specifications:                                                     *)
(*   SpecStrip  remove_comments applied to bounded texts (once and twice)  *)
(*   Spec       one run of main, step by step, over bounded inputs         *)
(*                                                                         *)
(* Strings are sequences of one-character strings, so that concatenation,  *)
(* joining and scanning are computed and not assumed.                      *)
(***************************************************************************)
EXTENDS Integers, Sequences, FiniteSets, TLC

VARIABLES
    \* ---- remove_comments harness (SpecStrip) ----
    text,             \* the text handed to remove_comments
    stripped,         \* remove_comments(text)
    restripped,       \* remove_comments(remove_comments(text))
    spc,              \* "input" | "once" | "twice"
    \* ---- one run of main (Spec) ----
    input,            \* the file at args.input: [kind, data], data being the Value
                      \* that from_str gives for the comment-stripped content
    fs,               \* referenced files: path -> [kind, data], likewise
    sources,          \* args.sources
    pc,               \* position of main
    data,             \* the parsed primary document
    mode,             \* which branch of main resolved the document
    arr,              \* the compileCommands array being walked (line 79)
    idx,              \* loop index (merge loop line 82, generate loop line 152)
    settings,         \* compiler_path, include_paths, defines, cpp_standard, current_dir
    compile_commands, \* the accumulating Vec<Value> (line 57)
    probed,           \* paths tested with Path::exists (line 84), in order
    opened,           \* paths read with fs::read_to_string (line 88), in order
    stderr,           \* messages printed with eprintln!, in order
    written,          \* whether fs::write succeeded on args.output
    outFile,          \* the file at args.output: NoValue while the run has not touched it
    exitCode          \* Running | 0 | 1

stripVars == <<text, stripped, restripped, spc>>
runVars == <<input, fs, sources, pc, data, mode, arr, idx, settings,
             compile_commands, probed, opened, stderr, written, outFile, exitCode>>
vars == <<text, stripped, restripped, spc,
          input, fs, sources, pc, data, mode, arr, idx, settings,
          compile_commands, probed, opened, stderr, written, outFile, exitCode>>

-----------------------------------------------------------------------------
(* Bounds *)

MaxText == 9

-----------------------------------------------------------------------------
(* Characters and strings *)

NL == "\n"
SLASH == "/"
STAR == "*"
QUOTE == "\""

TextAlphabet == {SLASH, STAR, NL, QUOTE}

SeqsUpTo(S, n) == UNION {[1..k -> S] : k \in 0..n}

-----------------------------------------------------------------------------
(* remove_comments: Regex::new(r"//.*?$|/\*.*?\*/") and replace_all(text, "")*)
(* The regex is compiled with no flags: `.` matches any character but "\n" *)
(* and `$` matches at the end of the text only.                            *)

\* `.*?` can cover t[a..b]
DotRun(t, a, b) == \A k \in a..b : t[k] # NL

\* first alternative, //.*?$ , anchored at i: the end of the match, or 0
LineCommentEnd(t, i) ==
    IF /\ i + 1 <= Len(t)
       /\ t[i] = SLASH
       /\ t[i + 1] = SLASH
       /\ DotRun(t, i + 2, Len(t))
    THEN Len(t)
    ELSE 0

\* second alternative, /\*.*?\*/ , anchored at i: the end of the match, or 0
BlockCommentEnd(t, i) ==
    IF /\ i + 3 <= Len(t)
       /\ t[i] = SLASH
       /\ t[i + 1] = STAR
    THEN LET closers == {j \in (i + 2)..(Len(t) - 1) :
                            /\ t[j] = STAR
                            /\ t[j + 1] = SLASH
                            /\ DotRun(t, i + 2, j - 1)}
         IN  IF closers = {} THEN 0
             ELSE (CHOOSE j \in closers : \A k \in closers : j <= k) + 1
    ELSE 0

\* the alternation at i, leftmost alternative first
MatchEnd(t, i) ==
    IF LineCommentEnd(t, i) # 0 THEN LineCommentEnd(t, i)
    ELSE BlockCommentEnd(t, i)

\* replace_all(text, ""): leftmost non-overlapping matches are dropped
RECURSIVE ReplaceAllFrom(_, _)
ReplaceAllFrom(t, i) ==
    IF i > Len(t) THEN <<>>
    ELSE IF MatchEnd(t, i) # 0 THEN ReplaceAllFrom(t, MatchEnd(t, i) + 1)
    ELSE <<t[i]>> \o ReplaceAllFrom(t, i + 1)

remove_comments(t) == ReplaceAllFrom(t, 1)

-----------------------------------------------------------------------------
(* The run's variables while only remove_comments is exercised, and the    *)
(* harness's variables while main runs.                                    *)

NoValue == [t |-> "none", v |-> <<>>]

\* an output file that fs::write created and could not fill
Truncated == [t |-> "truncated", v |-> <<>>]

\* the exit code of a process that has not exited
Running == -1

RunIdle ==
    /\ input = [kind |-> "missing", data |-> NoValue]
    /\ fs = <<>>
    /\ sources = <<>>
    /\ pc = "idle"
    /\ data = NoValue
    /\ mode = "none"
    /\ arr = <<>>
    /\ idx = 0
    /\ settings = <<>>
    /\ compile_commands = <<>>
    /\ probed = <<>>
    /\ opened = <<>>
    /\ stderr = <<>>
    /\ written = FALSE
    /\ outFile = NoValue
    /\ exitCode = Running

StripIdle ==
    /\ text = <<>>
    /\ stripped = <<>>
    /\ restripped = <<>>
    /\ spc = "idle"

-----------------------------------------------------------------------------
(* SpecStrip: remove_comments on every text over TextAlphabet of at most   *)
(* MaxText characters, then on its own result.                             *)

InitStrip ==
    /\ text \in SeqsUpTo(TextAlphabet, MaxText)
    /\ stripped = <<>>
    /\ restripped = <<>>
    /\ spc = "input"
    /\ RunIdle

\* let cleaned = remove_comments(&content)
StripOnce ==
    /\ spc = "input"
    /\ stripped' = remove_comments(text)
    /\ spc' = "once"
    /\ UNCHANGED <<text, restripped>>
    /\ UNCHANGED runVars

\* remove_comments applied to an already stripped text
StripTwice ==
    /\ spc = "once"
    /\ restripped' = remove_comments(stripped)
    /\ spc' = "twice"
    /\ UNCHANGED <<text, stripped>>
    /\ UNCHANGED runVars

NextStrip == StripOnce \/ StripTwice

SpecStrip == InitStrip /\ [][NextStrip]_vars

-----------------------------------------------------------------------------
(* Properties of remove_comments                                           *)

\* s occurs in t as a contiguous run
Occurs(s, t) ==
    \E k \in 1..(Len(t) - Len(s) + 1) : SubSeq(t, k, k + Len(s) - 1) = s

HasLineComment(t) ==
    \E i \in 1..(Len(t) - 1) : t[i] = SLASH /\ t[i + 1] = SLASH

HasBlockComment(t) ==
    \E i \in 1..(Len(t) - 3) :
        /\ t[i] = SLASH
        /\ t[i + 1] = STAR
        /\ \E j \in (i + 2)..(Len(t) - 1) : t[j] = STAR /\ t[j + 1] = SLASH

HasQuote(t) == \E i \in 1..Len(t) : t[i] = QUOTE

\* C3: remove_comments removes every comment: in a text without string
\* literals (so that every // and every /*...*/ is a comment), no // line
\* comment and no /*...*/ block comment, on one line or across lines, is
\* left in the returned text.
C3_EveryCommentRemoved ==
    (spc \in {"once", "twice"} /\ ~HasQuote(text)) =>
        /\ ~HasLineComment(stripped)
        /\ ~HasBlockComment(stripped)

\* C8: comment stripping is idempotent:
\* remove_comments(remove_comments(t)) = remove_comments(t) for every t.
C8_StripIdempotent ==
    spc = "twice" => restripped = stripped

\* The string literals of a JSON-with-comments text, as <<first, last>>
\* positions of their quotes, found by a scanner that knows strings, line
\* comments and block comments (the alphabet has no escape character).
RECURSIVE LiteralSpans(_, _, _, _)
LiteralSpans(t, i, st, from) ==
    IF i > Len(t) THEN {}
    ELSE IF st = "string" THEN
        IF t[i] = QUOTE
        THEN {<<from, i>>} \cup LiteralSpans(t, i + 1, "normal", 0)
        ELSE LiteralSpans(t, i + 1, "string", from)
    ELSE IF st = "line" THEN
        LiteralSpans(t, i + 1, IF t[i] = NL THEN "normal" ELSE "line", 0)
    ELSE IF st = "block" THEN
        IF i < Len(t) /\ t[i] = STAR /\ t[i + 1] = SLASH
        THEN LiteralSpans(t, i + 2, "normal", 0)
        ELSE LiteralSpans(t, i + 1, "block", 0)
    ELSE IF t[i] = QUOTE THEN LiteralSpans(t, i + 1, "string", i)
    ELSE IF i < Len(t) /\ t[i] = SLASH /\ t[i + 1] = SLASH
        THEN LiteralSpans(t, i + 2, "line", 0)
    ELSE IF i < Len(t) /\ t[i] = SLASH /\ t[i + 1] = STAR
        THEN LiteralSpans(t, i + 2, "block", 0)
    ELSE LiteralSpans(t, i + 1, "normal", 0)

StringLiterals(t) == {SubSeq(t, sp[1], sp[2]) : sp \in LiteralSpans(t, 1, "normal", 0)}

\* C9: stripping never alters the content of a JSON string literal: every
\* double-quoted literal of the text that contains // or /*...*/ appears
\* unchanged in the stripped text.
C9_StringLiteralsIntact ==
    spc \in {"once", "twice"} =>
        \A lit \in StringLiterals(text) :
            (HasLineComment(lit) \/ HasBlockComment(lit)) => Occurs(lit, stripped)

-----------------------------------------------------------------------------
(* serde_json::Value, as far as main looks at it                           *)

Absent == [t |-> "absent", v |-> <<>>]          \* Option::None of Value::get
JNum == [t |-> "number", v |-> <<>>]            \* neither string, array nor object
JStr(s) == [t |-> "string", v |-> s]
JArr(seq) == [t |-> "array", v |-> seq]
JObj(f) == [t |-> "object", v |-> f]

\* an object from a record of optional members: Absent members are left out
MkObj(r) == JObj([k \in {x \in DOMAIN r : r[x] # Absent} |-> r[k]])

\* Value::get(key): None on a value that is no object or has no such key
Get(val, key) ==
    IF val.t = "object" /\ key \in DOMAIN val.v THEN val.v[key] ELSE Absent

\* .and_then(Value::as_array), .and_then(Value::as_str)
IsArray(val) == val.t = "array"
IsString(val) == val.t = "string"

\* arr.iter().filter_map(Value::as_str).collect::<Vec<&str>>()
RECURSIVE FilterStrings(_)
FilterStrings(seq) ==
    IF seq = <<>> THEN <<>>
    ELSE (IF IsString(Head(seq)) THEN <<Head(seq).v>> ELSE <<>>)
         \o FilterStrings(Tail(seq))

\* .get(key).and_then(Value::as_array).map(filter strings).unwrap_or_default()
StringList(config, key) ==
    IF IsArray(Get(config, key)) THEN FilterStrings(Get(config, key).v) ELSE <<>>

-----------------------------------------------------------------------------
(* Entry synthesis (generate mode)                                         *)

SP == <<" ">>

\* .map(|x| format!("-I{}", x)) / format!("-D{}", x)
PrefixEach(prefix, seq) == [i \in 1..Len(seq) |-> prefix \o seq[i]]

\* .collect::<Vec<_>>().join(" ")
RECURSIVE Join(_, _)
Join(seq, sep) ==
    IF seq = <<>> THEN <<>>
    ELSE IF Len(seq) = 1 THEN seq[1]
    ELSE seq[1] \o sep \o Join(Tail(seq), sep)

\* format!("{} {} {} --std={} -c {}", compiler_path, include_flags, define_flags,
\*         cpp_standard, source)
FormatCommand(compiler_path, include_paths, defines, cpp_standard, source) ==
    LET include_flags == Join(PrefixEach(<<"-", "I">>, include_paths), SP)
        define_flags == Join(PrefixEach(<<"-", "D">>, defines), SP)
    IN  compiler_path \o SP \o include_flags \o SP \o define_flags
        \o <<" ", "-", "-", "s", "t", "d", "=">> \o cpp_standard
        \o <<" ", "-", "c", " ">> \o source

\* A slip in the json! literal: the "directory" member is left out.
SynthEntry_NoDirectory(current_dir, command, source) ==
    JObj([command |-> JStr(command), file |-> JStr(source)])

\* json!({"directory": current_dir, "command": command, "file": source})
SynthEntry(current_dir, command, source) ==
    JObj([directory |-> JStr(current_dir),
          command |-> JStr(command),
          file |-> JStr(source)])

\* A slip in the accumulation: the new entry is put in front.
Push_Front(vec, entry) == <<entry>> \o vec

\* compile_commands.push(entry)
Push(vec, entry) == Append(vec, entry)

-----------------------------------------------------------------------------
(* Mode resolution                                                         *)

Msg(level, what) == [level |-> level, what |-> what]

\* A slip in the test: any string element makes the array a path list.
IsPathList_AnyString(a) == \E i \in 1..Len(a) : IsString(a[i])

\* !arr.is_empty() && arr[0].is_string()
IsPathList(a) == a # <<>> /\ IsString(a[1])

\* What main does between a successful parse and the first loop or the write:
\* the next position, the branch taken, and what it leaves in the locals.
\* cwd is what env::current_dir() gives, or "." when it fails.
Stay == [pc |-> "done", mode |-> "none", arr |-> <<>>, idx |-> 0,
         settings |-> <<>>, cc |-> <<>>, err |-> ""]

Dispatch(doc, srcs, cwd) ==
    IF IsArray(doc) THEN
        [Stay EXCEPT !.pc = "write", !.mode = "passthrough", !.cc = doc.v]
    ELSE IF doc.t # "object" THEN
        [Stay EXCEPT !.err = "Unexpected JSON structure"]
    ELSE IF ~IsArray(Get(doc, "configurations")) THEN
        [Stay EXCEPT !.err = "'configurations' key not found"]
    ELSE IF Get(doc, "configurations").v = <<>> THEN
        [Stay EXCEPT !.err = "No configurations found"]
    ELSE
        LET config == Get(doc, "configurations").v[1]
            cc_field == Get(config, "compileCommands")
        IN  IF cc_field # Absent THEN
                IF ~IsArray(cc_field) THEN
                    [Stay EXCEPT !.err = "The 'compileCommands' field is not an array"]
                ELSE IF IsPathList(cc_field.v) THEN
                    [Stay EXCEPT !.pc = "merge", !.mode = "referenced",
                                 !.arr = cc_field.v, !.idx = 1]
                ELSE
                    [Stay EXCEPT !.pc = "write", !.mode = "embedded", !.cc = cc_field.v]
            ELSE IF srcs = <<>> THEN
                [Stay EXCEPT !.err = "No compileCommands field found and no source files were provided"]
            ELSE IF ~IsString(Get(config, "compilerPath")) THEN
                [Stay EXCEPT !.err = "'compilerPath' not found in configuration"]
            ELSE
                [Stay EXCEPT
                    !.pc = "generate", !.mode = "generate", !.idx = 1,
                    !.settings =
                        [compiler_path |-> Get(config, "compilerPath").v,
                         include_paths |-> StringList(config, "includePath"),
                         defines |-> StringList(config, "defines"),
                         cpp_standard |-> IF IsString(Get(config, "cppStandard"))
                                          THEN Get(config, "cppStandard").v ELSE <<>>,
                         current_dir |-> cwd]]

\* One element of the compileCommands path list (the body of the for loop):
\* whether the run exits, what is printed, which entries are appended, and
\* which paths were tested and read.
Outcome(exit, msgs, add, tested, read) ==
    [exit |-> exit, msgs |-> msgs, add |-> add, tested |-> tested, read |-> read]

\* A slip in the missing-file branch: the run stops instead of continuing.
OnMissing_Fatal(path_str) ==
    Outcome(TRUE, <<Msg("Error", "Referenced file does not exist.")>>,
            <<>>, <<path_str>>, <<>>)

\* if !Path::new(path_str).exists() { eprintln!("Warning: ..."); continue; }
OnMissing(path_str) ==
    Outcome(FALSE, <<Msg("Warning", "Referenced file does not exist. Skipping.")>>,
            <<>>, <<path_str>>, <<>>)

\* A slip in the not-an-array branch: the message is printed, the exit forgotten.
OnNotArray_NoExit(path_str) ==
    Outcome(FALSE, <<Msg("Error", "does not contain a JSON array")>>,
            <<>>, <<path_str>>, <<path_str>>)

\* else { eprintln!("Error: {} does not contain a JSON array."); process::exit(1); }
OnNotArray(path_str) ==
    Outcome(TRUE, <<Msg("Error", "does not contain a JSON array")>>,
            <<>>, <<path_str>>, <<path_str>>)

ProcessReference(file_val, files) ==
    IF ~IsString(file_val) THEN Outcome(FALSE, <<>>, <<>>, <<>>, <<>>)
    ELSE
        LET path_str == file_val.v
            f == files[path_str]
        IN  IF f.kind = "missing" THEN OnMissing(path_str)
            ELSE IF f.kind = "unreadable" THEN
                Outcome(TRUE, <<Msg("Error", "Error reading")>>,
                        <<>>, <<path_str>>, <<path_str>>)
            ELSE IF f.kind = "malformed" THEN
                Outcome(TRUE, <<Msg("Error", "Error parsing JSON")>>,
                        <<>>, <<path_str>>, <<path_str>>)
            ELSE IF ~IsArray(f.data) THEN OnNotArray(path_str)
            ELSE
                Outcome(FALSE, <<>>, f.data.v, <<path_str>>, <<path_str>>)

-----------------------------------------------------------------------------
(* Inputs of a run                                                         *)

MaxTop == 2        \* elements of a top-level array
MaxCc == 3         \* elements of compileCommands
MaxIncludes == 2   \* elements of includePath
MaxDefines == 2    \* elements of defines
MaxSources == 2    \* source files on the command line

CompilerName == <<"c", "c">>
StdName == <<"c", "1", "1">>
WorkDir == <<"/", "w">>
SourcePool == {<<"x">>, <<"y">>}
PathA == <<"p">>
PathB == <<"q">>
PathPool == {PathA, PathB}

EntryA == SynthEntry(<<"d">>, <<"g", " ", "a">>, <<"a">>)
EntryB == SynthEntry(<<"d">>, <<"g", " ", "b">>, <<"b">>)
Partial == JObj([file |-> JStr(<<"a">>)])

File(kind, d) == [kind |-> kind, data |-> d]

FileStates ==
    {File("missing", NoValue), File("unreadable", NoValue), File("malformed", NoValue),
     File("json", JNum), File("json", JArr(<<EntryA>>)), File("json", JArr(<<EntryB, JNum>>))}

ElemPool == {EntryA, JNum, Partial}
CcPool == {JStr(PathA), JStr(PathB), EntryA, JNum}
IncludePool == {JStr(<<"i">>), JStr(<<"j">>), JNum}
DefinePool == {JStr(<<"D">>), JNum}

GenerateConfigs ==
    {MkObj([compileCommands |-> Absent, compilerPath |-> cp, includePath |-> ip,
            defines |-> df, cppStandard |-> st]) :
        cp \in {Absent, JNum, JStr(CompilerName)},
        ip \in {Absent, JNum} \cup {JArr(s) : s \in SeqsUpTo(IncludePool, MaxIncludes)},
        df \in {Absent, JNum} \cup {JArr(s) : s \in SeqsUpTo(DefinePool, MaxDefines)},
        st \in {Absent, JNum, JStr(StdName)}}

MergeConfigs ==
    {MkObj([compileCommands |-> cc, compilerPath |-> cp]) :
        cc \in {JNum} \cup {JArr(s) : s \in SeqsUpTo(CcPool, MaxCc)},
        cp \in {Absent, JStr(CompilerName)}}

\* a second configuration, which main never looks at
Decoy == MkObj([compileCommands |-> JArr(<<EntryB>>)])

Document(config, rest) == JObj([configurations |-> JArr(<<config>> \o rest)])

OddDocuments ==
    {JNum, JObj([version |-> JNum]), JObj([configurations |-> JNum]),
     JObj([configurations |-> JArr(<<>>)]), Document(JNum, <<>>)}

InitLocals ==
    /\ pc = "start"
    /\ data = NoValue
    /\ mode = "none"
    /\ arr = <<>>
    /\ idx = 0
    /\ settings = <<>>
    /\ compile_commands = <<>>
    /\ probed = <<>>
    /\ opened = <<>>
    /\ stderr = <<>>
    /\ written = FALSE
    /\ outFile = NoValue
    /\ exitCode = Running

NoFiles == [p \in PathPool |-> File("missing", NoValue)]

Init ==
    /\ StripIdle
    /\ InitLocals
    /\ \/ /\ input \in {File("missing", NoValue), File("unreadable", NoValue),
                        File("malformed", NoValue)}
             \cup {File("json", d) : d \in OddDocuments}
             \cup {File("json", JArr(s)) : s \in SeqsUpTo(ElemPool, MaxTop)}
          /\ fs = NoFiles
          /\ sources \in SeqsUpTo(SourcePool, 1)
       \/ /\ input \in {File("json", Document(c, rest)) :
                            c \in MergeConfigs, rest \in {<<>>, <<Decoy>>}}
          /\ fs \in [PathPool -> FileStates]
          /\ sources \in SeqsUpTo(SourcePool, 1)
       \/ /\ input \in {File("json", Document(c, <<>>)) : c \in GenerateConfigs}
          /\ fs = NoFiles
          /\ sources \in SeqsUpTo(SourcePool, MaxSources)

-----------------------------------------------------------------------------
(* main, step by step                                                      *)

Exit1(what) ==
    /\ stderr' = Append(stderr, Msg("Error", what))
    /\ exitCode' = 1
    /\ pc' = "done"

\* lines 40-54: the input file is tested, read, stripped and parsed
LoadInput ==
    /\ pc = "start"
    /\ IF input.kind = "missing" THEN
            Exit1("The file does not exist") /\ UNCHANGED data
       ELSE IF input.kind = "unreadable" THEN
            Exit1("Error reading") /\ UNCHANGED data
       ELSE IF input.kind = "malformed" THEN
            Exit1("Error parsing JSON") /\ UNCHANGED data
       ELSE /\ data' = input.data
            /\ pc' = "resolve"
            /\ UNCHANGED <<stderr, exitCode>>
    /\ UNCHANGED <<input, fs, sources, mode, arr, idx, settings, compile_commands,
                   probed, opened, written, outFile>>
    /\ UNCHANGED stripVars

\* lines 57-149 and 174-181: the shape of the document picks the branch
Resolve ==
    /\ pc = "resolve"
    /\ \E cwd \in {WorkDir, <<".">>} :
         LET r == Dispatch(data, sources, cwd)
         IN  /\ mode' = r.mode
             /\ arr' = r.arr
             /\ idx' = r.idx
             /\ settings' = r.settings
             /\ compile_commands' = r.cc
             /\ IF r.err # "" THEN Exit1(r.err)
                ELSE pc' = r.pc /\ UNCHANGED <<stderr, exitCode>>
    /\ UNCHANGED <<input, fs, sources, data, probed, opened, written, outFile>>
    /\ UNCHANGED stripVars

\* lines 82-104: one iteration of the loop over the referenced paths
MergeStep ==
    /\ pc = "merge"
    /\ idx <= Len(arr)
    /\ LET o == ProcessReference(arr[idx], fs)
       IN  /\ stderr' = stderr \o o.msgs
           /\ probed' = probed \o o.tested
           /\ opened' = opened \o o.read
           /\ IF o.exit
              THEN /\ exitCode' = 1
                   /\ pc' = "done"
                   /\ UNCHANGED <<compile_commands, idx>>
              ELSE /\ compile_commands' = compile_commands \o o.add
                   /\ idx' = idx + 1
                   /\ pc' = IF idx = Len(arr) THEN "write" ELSE "merge"
                   /\ UNCHANGED exitCode
    /\ UNCHANGED <<input, fs, sources, data, mode, arr, settings, written, outFile>>
    /\ UNCHANGED stripVars

\* lines 152-172: one iteration of the loop over the source files
GenerateStep ==
    /\ pc = "generate"
    /\ idx <= Len(sources)
    /\ LET source == sources[idx]
           command == FormatCommand(settings.compiler_path, settings.include_paths,
                                    settings.defines, settings.cpp_standard, source)
       IN  compile_commands' =
               Push(compile_commands, SynthEntry(settings.current_dir, command, source))
    /\ idx' = idx + 1
    /\ pc' = IF idx = Len(sources) THEN "write" ELSE "generate"
    /\ UNCHANGED <<input, fs, sources, data, mode, arr, settings, probed, opened,
                   stderr, written, outFile, exitCode>>
    /\ UNCHANGED stripVars

\* lines 184-192: the collected entries are serialized and written. The file
\* then holds the array (its JSON value is kept, not its pretty-printed
\* text). When fs::write fails the file was either not created or created
\* and left without the whole text.
WriteOutput ==
    /\ pc = "write"
    /\ \/ /\ written' = TRUE
          /\ outFile' = JArr(compile_commands)
          /\ exitCode' = 0
          /\ pc' = "done"
          /\ UNCHANGED stderr
       \/ /\ Exit1("Error writing")
          /\ outFile' \in {outFile, Truncated}
          /\ UNCHANGED written
    /\ UNCHANGED <<input, fs, sources, data, mode, arr, idx, settings,
                   compile_commands, probed, opened>>
    /\ UNCHANGED stripVars

Next == LoadInput \/ Resolve \/ MergeStep \/ GenerateStep \/ WriteOutput

Spec == Init /\ [][Next]_vars

-----------------------------------------------------------------------------
(* Properties of a run                                                     *)

\* the selected configuration of the input document, when there is one
HasConfig ==
    /\ input.kind = "json"
    /\ IsArray(Get(input.data, "configurations"))
    /\ Get(input.data, "configurations").v # <<>>

FirstConfig == Get(input.data, "configurations").v[1]

CcField == Get(FirstConfig, "compileCommands")

HasError == \E i \in 1..Len(stderr) : stderr[i].level = "Error"

WriteFailed == stderr # <<>> /\ stderr[Len(stderr)] = Msg("Error", "Error writing")

\* the input conditions of GENERATE mode
GenerateInput ==
    /\ HasConfig
    /\ CcField = Absent
    /\ IsString(Get(FirstConfig, "compilerPath"))
    /\ sources # <<>>

\* the entries have the source files as their `file`, in order
FilesAre(entries, srcs) ==
    /\ Len(entries) = Len(srcs)
    /\ \A i \in 1..Len(srcs) : Get(entries[i], "file") = JStr(srcs[i])

\* C1: in GENERATE mode the output has exactly one entry per source file,
\* the i-th entry's `file` is the i-th source path unmodified; the entries
\* are complete when the loop ends and nothing but a failing write keeps
\* them from the output file.
C1_GenerateOneEntryPerSource ==
    GenerateInput =>
        /\ pc = "write" => FilesAre(compile_commands, sources)
        /\ written => FilesAre(outFile.v, sources)
        /\ (pc = "done" /\ ~written) => WriteFailed

C1_Witness ==
    /\ GenerateInput
    /\ written
    /\ Len(sources) = 2
    /\ sources[1] # sources[2]
    /\ FilesAre(outFile.v, sources)

\* the tokens of a generated command, as the claim lists them
CommandTokens(config, source) ==
    <<Get(config, "compilerPath").v>>
    \o PrefixEach(<<"-", "I">>, StringList(config, "includePath"))
    \o PrefixEach(<<"-", "D">>, StringList(config, "defines"))
    \o << <<"-", "-", "s", "t", "d", "=">>
          \o (IF IsString(Get(config, "cppStandard"))
              THEN Get(config, "cppStandard").v ELSE <<>>),
          <<"-", "c">>,
          source >>

\* C2: every generated entry's `command` is exactly the compiler path, the
\* -I flags, the -D flags, --std=<standard>, -c and the source path, joined
\* by single spaces, for all settings (empty includePath and defines too).
C2_CommandSingleSpaced ==
    (GenerateInput /\ written) =>
        \A i \in 1..Len(outFile.v) :
            Get(outFile.v[i], "command") =
                JStr(Join(CommandTokens(FirstConfig, sources[i]), SP))

\* the input conditions of MERGE-REFERENCED mode
ReferencedInput ==
    /\ HasConfig
    /\ IsArray(CcField)
    /\ CcField.v # <<>>
    /\ CcField.v[1].t = "string"

ExistingIsArray(val) ==
    val.t = "string" =>
        \/ fs[val.v].kind = "missing"
        \/ fs[val.v].kind = "json" /\ fs[val.v].data.t = "array"

IsMissingPath(val) == val.t = "string" /\ fs[val.v].kind = "missing"

\* the element sequences of the existing files, in compileCommands order
RECURSIVE Concatenated(_)
Concatenated(a) ==
    IF a = <<>> THEN <<>>
    ELSE (IF a[1].t = "string" /\ fs[a[1].v].kind = "json"
          THEN fs[a[1].v].data.v ELSE <<>>)
         \o Concatenated(Tail(a))

RECURSIVE CountMissing(_)
CountMissing(a) ==
    IF a = <<>> THEN 0
    ELSE (IF IsMissingPath(a[1]) THEN 1 ELSE 0) + CountMissing(Tail(a))

\* C4: in MERGE-REFERENCED mode, when every referenced file that exists
\* parses to a JSON array, the run reaches the write with the concatenation,
\* in compileCommands order, of the existing files' elements; it ends with
\* exit code 0 and that output (only a failing write can end it otherwise);
\* each missing file adds nothing and gives one warning, and no error.
C4_MergeReferencedSkipsMissing ==
    (ReferencedInput /\ \A i \in 1..Len(CcField.v) : ExistingIsArray(CcField.v[i])) =>
        /\ pc = "write" =>
              /\ compile_commands = Concatenated(CcField.v)
              /\ Len(stderr) = CountMissing(CcField.v)
              /\ \A i \in 1..Len(stderr) : stderr[i].level = "Warning"
        /\ pc = "done" =>
              \/ /\ exitCode = 0
                 /\ written
                 /\ outFile.v = Concatenated(CcField.v)
                 /\ Len(stderr) = CountMissing(CcField.v)
                 /\ ~HasError
              \/ exitCode = 1 /\ ~written /\ WriteFailed

C4_Witness ==
    /\ ReferencedInput
    /\ Len(CcField.v) = 3
    /\ \A i \in 1..3 : CcField.v[i].t = "string"
    /\ fs[CcField.v[1].v].kind = "json" /\ fs[CcField.v[1].v].data.t = "array"
    /\ fs[CcField.v[2].v].kind = "missing"
    /\ fs[CcField.v[3].v].kind = "json" /\ fs[CcField.v[3].v].data.t = "array"
    /\ written
    /\ exitCode = 0
    /\ outFile.v = fs[CcField.v[1].v].data.v \o fs[CcField.v[3].v].data.v
    /\ outFile.v # <<>>
    /\ Len(stderr) = 1

\* C5: a run that prints an error ends at once with exit code 1 and has not
\* written the output file; unless the error is that of the write itself,
\* the output file was not touched at all. The output file is written only
\* by the final step, after all resolution has succeeded, on a run that ends
\* with exit code 0.
C5_NoOutputOnFatalError ==
    /\ HasError => (pc = "done" /\ exitCode = 1 /\ ~written)
    /\ (HasError /\ ~WriteFailed) => outFile = NoValue
    /\ exitCode = 1 => (HasError /\ ~written)
    /\ pc # "done" => (outFile = NoValue /\ exitCode = Running)
    /\ written => (pc = "done" /\ exitCode = 0 /\ outFile = JArr(compile_commands))
    /\ pc = "done" => exitCode \in {0, 1}

C5_Witness ==
    /\ pc = "done"
    /\ exitCode = 1
    /\ mode = "referenced"
    /\ compile_commands # <<>>
    /\ stderr[Len(stderr)] = Msg("Error", "does not contain a JSON array")
    /\ ~written
    /\ outFile = NoValue

\* the input condition of both merge modes
ArrayCcInput == HasConfig /\ IsArray(CcField)

FirstIsString(a) == a # <<>> /\ a[1].t = "string"

BadFile(path) == fs[path].kind \in {"unreadable", "malformed"}
                 \/ (fs[path].kind = "json" /\ fs[path].data.t # "array")

\* C6: when compileCommands is an array, the JSON type of its first element
\* alone picks the mode. First element not a string: no file is tested or
\* read and the output is the array itself. First element a string: the
\* string elements are the paths tested, in array order, the other elements
\* are passed over, and nothing but a bad referenced file or a failing
\* write ends the run with an error.
C6_FirstElementDecides ==
    ArrayCcInput =>
        /\ mode # "none" =>
              mode = (IF FirstIsString(CcField.v) THEN "referenced" ELSE "embedded")
        /\ ~FirstIsString(CcField.v) =>
              /\ probed = <<>> /\ opened = <<>>
              /\ pc = "write" => compile_commands = CcField.v
              /\ written => outFile.v = CcField.v
              /\ HasError => WriteFailed
        /\ FirstIsString(CcField.v) =>
              /\ pc \in {"merge", "write"} =>
                    probed = FilterStrings(SubSeq(CcField.v, 1, idx - 1))
              /\ pc = "write" => idx = Len(CcField.v) + 1
              /\ written => probed = FilterStrings(CcField.v)
              /\ HasError => (WriteFailed \/ (probed # <<>> /\ BadFile(probed[Len(probed)])))

C6_Witness ==
    /\ ArrayCcInput
    /\ Len(CcField.v) = 3
    /\ CcField.v[1].t = "string"
    /\ CcField.v[2].t # "string"
    /\ CcField.v[3].t = "string"
    /\ CcField.v[1] # CcField.v[3]
    /\ written
    /\ exitCode = 0
    /\ probed = <<CcField.v[1].v, CcField.v[3].v>>

\* C7: the mode follows the source list: merge mode when no source files
\* are supplied, generate mode when one or more are supplied.
C7_ModeFollowsSources ==
    mode \in {"embedded", "referenced", "generate"} =>
        (mode = "generate" <=> sources # <<>>)

WellFormedEntry(e) ==
    /\ e.t = "object"
    /\ DOMAIN e.v = {"directory", "command", "file"}
    /\ \A k \in DOMAIN e.v : e.v[k].t = "string"

\* C10 as stated: whenever the output file is written, in every mode, each
\* element is an object with exactly the keys directory, command and file,
\* all string-valued.
C10_OutputEntriesWellFormed ==
    written => outFile.t = "array" /\ \A i \in 1..Len(outFile.v) : WellFormedEntry(outFile.v[i])

\* C10 as amended: whenever the output file is written it is an array; in
\* GENERATE mode each element is an object with exactly the keys directory,
\* command and file, all string-valued; in the other modes each element is
\* an element of the input array (top-level, embedded, or of an existing
\* referenced file) copied unchanged, whatever its shape.
C10_GeneratedWellFormedOthersCopied ==
    written =>
        /\ outFile.t = "array"
        /\ mode \in {"passthrough", "embedded", "referenced", "generate"}
        /\ mode = "generate" =>
              /\ outFile.v # <<>>
              /\ \A i \in 1..Len(outFile.v) : WellFormedEntry(outFile.v[i])
        /\ mode = "passthrough" => outFile.v = input.data.v
        /\ mode = "embedded" => outFile.v = CcField.v
        /\ mode = "referenced" =>
              \A i \in 1..Len(outFile.v) :
                  \E path \in PathPool :
                      /\ fs[path].kind = "json"
                      /\ fs[path].data.t = "array"
                      /\ \E k \in 1..Len(fs[path].data.v) : fs[path].data.v[k] = outFile.v[i]

C10_Witness ==
    /\ written
    /\ mode = "generate"
    /\ Len(outFile.v) = 2
    /\ \A i \in 1..Len(outFile.v) : WellFormedEntry(outFile.v[i])

=============================================================================
